---- MODULE Spec2Model ----
(***************************************************************************)
(* A model of nb/utils.py (DataWorld): the option-underride protocol and   *)
(* the helpers built on it.  Python dictionaries are objects on a heap     *)
(* (a sequence of mappings, the index being the object's identity), so     *)
(* that in-place mutation and aliasing are visible.  Every helper is one   *)
(* action; the calls it makes on its collaborators (pyplot, pandas,        *)
(* IPython.display) are recorded, in order, in log.                        *)
(***************************************************************************)
EXTENDS Integers, Sequences, FiniteSets, TLC

VARIABLES heap, ret, axes, log, last, counts

vars == <<heap, ret, axes, log, last, counts>>

(* ------------------------------ bounds --------------------------------- *)

\* longest pd.Series given to value_counts
MaxSeriesLen == 3
\* largest value held by a series or a sample
MaxVal == 2
\* longest sample given to plot_kde
MaxSampleLen == 2
\* most artists ever drawn on the current axes
MaxArtists == 3
\* number of distinct goodness-of-fit values a regression result may hold
MaxR == 5

(* --------------------------- Python values ----------------------------- *)

\* a dict is a function from a finite set of keys to values
EmptyDict == <<>>

Dicts(keys, vals) == UNION {[S -> vals] : S \in SUBSET keys}

\* d.pop(key, default): the value and the dict without the key
pop(d, key, default) ==
    [val  |-> IF key \in DOMAIN d THEN d[key] ELSE default,
     dict |-> [k \in DOMAIN d \ {key} |-> d[k]]]

\* the values Python's `if` takes as false, among the ones written as text
Falsy == {"False", "None", "0", ""}

Truthy(v) == v \notin Falsy

\* **options at a call site: a new dict object holding the keyword arguments
kwargs(h, options) == [heap |-> Append(h, options), id |-> Len(h) + 1]

\* one call a helper makes (on a collaborator, on underride or on another
\* helper), as recorded in log: the callee, the calling helper, the keyword
\* arguments, the numeric arguments, and for ax.legend the handles and labels
Call(fn, by, kw, num, handles, labels) ==
    [fn |-> fn, by |-> by, kw |-> kw, num |-> num,
     handles |-> handles, labels |-> labels]

(* ------------------------------ underride ------------------------------ *)

setdefault_overwrite(d, key, val) ==
    [k \in DOMAIN d \cup {key} |-> IF k = key THEN val ELSE d[k]]

\* d.setdefault(key, val)
setdefault(d, key, val) ==
    IF key \in DOMAIN d
    THEN d
    ELSE [k \in DOMAIN d \cup {key} |-> IF k = key THEN val ELSE d[k]]

RECURSIVE underride_loop(_, _, _)
\* for key, val in options.items(): d.setdefault(key, val)
underride_loop(d, options, keys) ==
    IF keys = {}
    THEN d
    ELSE LET key == CHOOSE k \in keys : TRUE
         IN  underride_loop(setdefault(d, key, options[key]), options,
                            keys \ {key})

underride_copy(h, d, options) ==
    [heap |-> Append(h, underride_loop(h[d], options, DOMAIN options)),
     ret  |-> Len(h) + 1]

\* underride(d, **options): d is the identity of the caller's dict
underride(h, d, options) ==
    [heap |-> [h EXCEPT ![d] = underride_loop(h[d], options, DOMAIN options)],
     ret  |-> d]

UKeys == {"color", "alpha", "loc"}
UVals == {"red", "0.6"}

\* the last call made on this module: its name and arguments, and whether it
\* ended by raising
NoCall == [op |-> "none", d |-> EmptyDict, options |-> EmptyDict,
           nums |-> <<>>, strs |-> <<>>, raised |-> FALSE]

\* a caller builds a dict d and calls underride(d, **options)
Underride ==
    \E d \in Dicts(UKeys, UVals), options \in Dicts(UKeys, UVals) :
        LET r == underride(<<d>>, 1, options)
        IN  /\ heap' = r.heap
            /\ ret' = r.ret
            /\ last' = [NoCall EXCEPT !.op = "underride", !.d = d,
                                      !.options = options]
            /\ log' = <<>>
            /\ UNCHANGED <<axes, counts>>

(* ---------------------------- value_counts ----------------------------- *)

\* a missing entry of a series (NaN)
NaN == 0 - 1

RECURSIVE Count(_, _)
Count(series, v) ==
    IF series = <<>> THEN 0
    ELSE (IF Head(series) = v THEN 1 ELSE 0) + Count(Tail(series), v)

RECURSIVE Distinct(_)
\* the distinct values of a series, in order of first appearance
Distinct(series) ==
    IF series = <<>> THEN <<>>
    ELSE LET rest == Distinct(SubSeq(series, 1, Len(series) - 1))
             x == series[Len(series)]
         IN  IF \E i \in 1..Len(rest) : rest[i] = x THEN rest
             ELSE Append(rest, x)

\* the order of two rows <<value, count>>: by count, most frequent first
\* (Series.value_counts), or by value ascending with NaN last (sort_index)
Before(order, a, b) ==
    IF order = "count"
    THEN a[2] > b[2]
    ELSE a[1] # NaN /\ (b[1] = NaN \/ a[1] < b[1])

RECURSIVE InsertBy(_, _, _)
\* stable insertion of row x into rows already in the given order
InsertBy(rows, x, order) ==
    IF rows = <<>> THEN <<x>>
    ELSE IF Before(order, x, Head(rows)) THEN <<x>> \o rows
    ELSE <<Head(rows)>> \o InsertBy(Tail(rows), x, order)

RECURSIVE SortBy(_, _)
SortBy(rows, order) ==
    IF rows = <<>> THEN <<>>
    ELSE InsertBy(SortBy(SubSeq(rows, 1, Len(rows) - 1), order),
                  rows[Len(rows)], order)

\* pandas Series.value_counts(dropna=...): one row <<value, count>> per
\* distinct value, most frequent first; NaN is left out when dropna is true
\* (the primitive's own default)
series_value_counts(series, options) ==
    LET dropna == IF "dropna" \in DOMAIN options
                  THEN Truthy(options["dropna"]) ELSE TRUE
        kept == SelectSeq(Distinct(series), LAMBDA v : ~(dropna /\ v = NaN))
        rows == [i \in 1..Len(kept) |-> <<kept[i], Count(series, kept[i])>>]
    IN  SortBy(rows, "count")

\* pandas Series.sort_index(): ascending by index value, NaN last
sort_index(rows) == SortBy(rows, "index")

value_counts_dropping(h, series, options) ==
    LET k == kwargs(h, options)
        u == underride(k.heap, k.id, [dropna |-> "True"])
        opts == u.heap[u.ret]
    IN  [heap |-> u.heap,
         ret  |-> sort_index(series_value_counts(series, opts)),
         log  |-> <<Call("underride", "value_counts", [dropna |-> "True"],
                         <<k.id>>, <<>>, <<>>),
                    Call("series.value_counts", "value_counts", opts,
                         series, <<>>, <<>>),
                    Call("sort_index", "value_counts", EmptyDict,
                         <<>>, <<>>, <<>>)>>]

\* value_counts(series, **options)
value_counts(h, series, options) ==
    LET k == kwargs(h, options)
        u == underride(k.heap, k.id, [dropna |-> "False"])
        opts == u.heap[u.ret]
    IN  [heap |-> u.heap,
         ret  |-> sort_index(series_value_counts(series, opts)),
         log  |-> <<Call("underride", "value_counts", [dropna |-> "False"],
                         <<k.id>>, <<>>, <<>>),
                    Call("series.value_counts", "value_counts", opts,
                         series, <<>>, <<>>),
                    Call("sort_index", "value_counts", EmptyDict,
                         <<>>, <<>>, <<>>)>>]

SeriesVals == (1..MaxVal) \cup {NaN}

AllSeries == UNION {[1..n -> SeriesVals] : n \in 0..MaxSeriesLen}

VCOptions == Dicts({"dropna"}, {"True", "False"})

ValueCounts ==
    \E series \in AllSeries, options \in VCOptions :
        LET r == value_counts(<<>>, series, options)
        IN  /\ counts' = r.ret
            /\ log' = r.log
            /\ last' = [NoCall EXCEPT !.op = "value_counts",
                                      !.options = options, !.nums = series]
            /\ heap' = <<>>
            /\ ret' = 0
            /\ UNCHANGED axes

(* --------------------------- display_summary --------------------------- *)

\* goodness-of-fit values, in units of 1e-5
RValues == {12346 * i : i \in 1..MaxR}

\* f"{x:0.4}": x to four significant digits, in units of 1e-4
\* (x in units of 1e-5, 0.1 <= x < 1)
Format4(x) == (x + 5) \div 10

\* a fitted result: the tables of result.summary() and the attributes the
\* object exposes
Results ==
    {[tables |-> <<"header", coef, "diagnostics">>, attrs |-> a] :
        coef \in {"coef_ols", "coef_logit", "coef_glm"},
        a \in Dicts({"rsquared", "prsquared"}, RValues)}

hasattr(result, name) == name \in DOMAIN result.attrs

\* display(SimpleTable([row]))
display_row(label, value) ==
    Call("display", "display_summary", [table |-> "SimpleTable"],
         <<Format4(value)>>, <<>>, <<label>>)

display_summary_prsquared_first(result) ==
    LET params == result.tables[2]
        shown == <<Call("display", "display_summary", [table |-> params],
                        <<>>, <<>>, <<>>)>>
    IN  IF hasattr(result, "prsquared")
        THEN Append(shown, display_row("Pseudo R-squared:",
                                       result.attrs["prsquared"]))
        ELSE IF hasattr(result, "rsquared")
        THEN Append(shown, display_row("R-squared:", result.attrs["rsquared"]))
        ELSE shown

display_summary_no_return(result) ==
    LET params == result.tables[2]
        shown == <<Call("display", "display_summary", [table |-> params],
                        <<>>, <<>>, <<>>)>>
    IN  IF hasattr(result, "rsquared")
        THEN Append(shown, display_row("R-squared:", result.attrs["rsquared"]))
        ELSE IF hasattr(result, "prsquared")
        THEN Append(shown, display_row("Pseudo R-squared:",
                                       result.attrs["prsquared"]))
        ELSE Append(shown, Call("display", "display_summary",
                                [table |-> "SimpleTable"], <<>>, <<>>, <<>>))

\* display_summary(result): the display calls it makes, in order
display_summary(result) ==
    LET params == result.tables[2]
        shown == <<Call("display", "display_summary", [table |-> params],
                        <<>>, <<>>, <<>>)>>
    IN  IF hasattr(result, "rsquared")
        THEN Append(shown, display_row("R-squared:", result.attrs["rsquared"]))
        ELSE IF hasattr(result, "prsquared")
        THEN Append(shown, display_row("Pseudo R-squared:",
                                       result.attrs["prsquared"]))
        ELSE shown

DisplaySummary ==
    \E result \in Results :
        /\ log' = display_summary(result)
        /\ last' = [NoCall EXCEPT !.op = "display_summary",
                                  !.d = result.attrs, !.strs = result.tables]
        /\ heap' = <<>>
        /\ ret' = 0
        /\ UNCHANGED <<axes, counts>>

(* ----------------------- the current axes (pyplot) --------------------- *)

\* plt.gca() before anything is drawn
NoAxes == [artists |-> <<>>, props |-> EmptyDict, legend |-> <<>>]

\* an artist drawn on the axes; label "" is an artist without a label
draw(ax, kind, label) ==
    [ax EXCEPT !.artists = Append(@, [kind |-> kind, label |-> label])]

\* ax.get_legend_handles_labels(): the labeled artists and their labels
get_legend_handles_labels(ax) ==
    LET idx == SelectSeq([i \in 1..Len(ax.artists) |-> i],
                         LAMBDA i : ax.artists[i].label # "")
    IN  [handles |-> idx,
         labels  |-> [j \in 1..Len(idx) |-> ax.artists[idx[j]].label]]

\* ax.legend(handles, labels, **options): the axes' legend is replaced
ax_legend(ax, handles, labels, options) ==
    [ax EXCEPT !.legend = <<[handles |-> handles, labels |-> labels,
                             kw |-> options]>>]

\* ax.set(**options): each option sets the axes property of that name
ax_set(ax, options) ==
    [ax EXCEPT !.props = [k \in DOMAIN @ \cup DOMAIN options |->
                            IF k \in DOMAIN options THEN options[k] ELSE @[k]]]

\* the label an artist gets: the label option, or else the object's name
label_of(options, name) ==
    IF "label" \in DOMAIN options THEN options["label"] ELSE name

\* the running state of a helper: the heap, the axes and the calls so far
Step(st, h, ax, calls) == [heap |-> h, axes |-> ax, log |-> st.log \o calls]

(* -------------------------------- legend ------------------------------- *)

legend_always(st, options) ==
    LET k == kwargs(st.heap, options)
        u == underride(k.heap, k.id, [loc |-> "best"])
        hl == get_legend_handles_labels(st.axes)
        opts == u.heap[k.id]
    IN  Step(st, u.heap, ax_legend(st.axes, hl.handles, hl.labels, opts),
             <<Call("underride", "legend", [loc |-> "best"], <<k.id>>,
                    <<>>, <<>>),
               Call("gca", "legend", EmptyDict, <<>>, <<>>, <<>>),
               Call("get_legend_handles_labels", "legend", EmptyDict,
                    <<>>, <<>>, <<>>),
               Call("ax.legend", "legend", opts, <<>>, hl.handles,
                    hl.labels)>>)

legend_underride_last(st, options) ==
    LET k == kwargs(st.heap, options)
        hl == get_legend_handles_labels(st.axes)
        u == underride(k.heap, k.id, [loc |-> "best"])
        opts == u.heap[k.id]
        probe == <<Call("gca", "legend", EmptyDict, <<>>, <<>>, <<>>),
                   Call("get_legend_handles_labels", "legend", EmptyDict,
                        <<>>, <<>>, <<>>),
                   Call("underride", "legend", [loc |-> "best"], <<k.id>>,
                        <<>>, <<>>)>>
    IN  IF hl.handles # <<>>
        THEN Step(st, u.heap,
                  ax_legend(st.axes, hl.handles, hl.labels, opts),
                  Append(probe, Call("ax.legend", "legend", opts, <<>>,
                                     hl.handles, hl.labels)))
        ELSE Step(st, u.heap, st.axes, probe)

\* legend(**options)
legend(st, options) ==
    LET k == kwargs(st.heap, options)
        u == underride(k.heap, k.id, [loc |-> "best"])
        hl == get_legend_handles_labels(st.axes)
        opts == u.heap[k.id]
        probe == <<Call("underride", "legend", [loc |-> "best"], <<k.id>>,
                        <<>>, <<>>),
                   Call("gca", "legend", EmptyDict, <<>>, <<>>, <<>>),
                   Call("get_legend_handles_labels", "legend", EmptyDict,
                        <<>>, <<>>, <<>>)>>
    IN  IF hl.handles # <<>>
        THEN Step(st, u.heap,
                  ax_legend(st.axes, hl.handles, hl.labels, opts),
                  Append(probe, Call("ax.legend", "legend", opts, <<>>,
                                     hl.handles, hl.labels)))
        ELSE Step(st, u.heap, st.axes, probe)

(* ------------------------------- decorate ------------------------------ *)

decorate_layout_first(st, options) ==
    LET k == kwargs(st.heap, options)
        loc == pop(k.heap[k.id], "loc", "best")
        leg == pop(loc.dict, "legend", "True")
        h == [k.heap EXCEPT ![k.id] = leg.dict]
        s0 == Step(st, h, st.axes,
                   <<Call("tight_layout", "decorate", EmptyDict,
                          <<>>, <<>>, <<>>)>>)
        s1 == IF Truthy(leg.val)
              THEN legend(Step(s0, h, s0.axes,
                               <<Call("legend", "decorate", [loc |-> loc.val],
                                      <<>>, <<>>, <<>>)>>),
                          [loc |-> loc.val])
              ELSE s0
    IN  Step(s1, s1.heap, ax_set(s1.axes, s1.heap[k.id]),
             <<Call("gca", "decorate", EmptyDict, <<>>, <<>>, <<>>),
               Call("ax.set", "decorate", s1.heap[k.id], <<>>, <<>>, <<>>)>>)

\* decorate(**options)
decorate(st, options) ==
    LET k == kwargs(st.heap, options)
        loc == pop(k.heap[k.id], "loc", "best")
        leg == pop(loc.dict, "legend", "True")
        h == [k.heap EXCEPT ![k.id] = leg.dict]
        s0 == Step(st, h, st.axes, <<>>)
        s1 == IF Truthy(leg.val)
              THEN legend(Step(s0, h, s0.axes,
                               <<Call("legend", "decorate", [loc |-> loc.val],
                                      <<>>, <<>>, <<>>)>>),
                          [loc |-> loc.val])
              ELSE s0
    IN  Step(s1, s1.heap, ax_set(s1.axes, s1.heap[k.id]),
             <<Call("gca", "decorate", EmptyDict, <<>>, <<>>, <<>>),
               Call("ax.set", "decorate", s1.heap[k.id], <<>>, <<>>, <<>>),
               Call("tight_layout", "decorate", EmptyDict,
                    <<>>, <<>>, <<>>)>>)

(* ----------------------------- two_bar_plots --------------------------- *)

\* the Hist/Pmf objects a caller may pass: an identity and a name
Dists == {[id |-> 1, name |-> ""], [id |-> 2, name |-> "a"]}

\* dist.bar(align=..., width=..., **options): one bar artist on the axes
dist_bar(st, dist, align, width, options) ==
    Step(st, st.heap, draw(st.axes, "bar", label_of(options, dist.name)),
         <<Call("bar", "two_bar_plots",
                [k \in DOMAIN options \cup {"align"} |->
                    IF k = "align" THEN align ELSE options[k]],
                <<dist.id, width>>, <<>>, <<>>)>>)

two_bar_plots_swapped(st, dist1, dist2, width, xlabel, options) ==
    LET k == kwargs(st.heap, options)
        u == underride(k.heap, k.id, [alpha |-> "0.6"])
        s0 == Step(st, u.heap, st.axes,
                   <<Call("underride", "two_bar_plots", [alpha |-> "0.6"],
                          <<k.id>>, <<>>, <<>>)>>)
        s1 == dist_bar(s0, dist1, "edge", width, s0.heap[k.id])
        s2 == dist_bar(s1, dist2, "edge", 0 - width, s1.heap[k.id])
    IN  decorate(s2, [xlabel |-> xlabel])

\* two_bar_plots(dist1, dist2, width, xlabel, **options)
two_bar_plots(st, dist1, dist2, width, xlabel, options) ==
    LET k == kwargs(st.heap, options)
        u == underride(k.heap, k.id, [alpha |-> "0.6"])
        s0 == Step(st, u.heap, st.axes,
                   <<Call("underride", "two_bar_plots", [alpha |-> "0.6"],
                          <<k.id>>, <<>>, <<>>)>>)
        s1 == dist_bar(s0, dist1, "edge", 0 - width, s0.heap[k.id])
        s2 == dist_bar(s1, dist2, "edge", width, s1.heap[k.id])
    IN  decorate(s2, [xlabel |-> xlabel])

(* -------------------------------- plot_kde ----------------------------- *)

RECURSIVE Sum(_)
Sum(xs) == IF xs = <<>> THEN 0 ELSE Head(xs) + Sum(Tail(xs))

\* np.mean(sample)
Mean(xs) == Sum(xs) \div Len(xs)

\* the mean of the squared deviations
Variance(xs) ==
    LET m == Mean(xs)
    IN  Sum([i \in 1..Len(xs) |-> (xs[i] - m) * (xs[i] - m)]) \div Len(xs)

\* np.std(sample)
Std(xs) == CHOOSE r \in 0..MaxVal : r * r = Variance(xs)

\* the samples whose mean and standard deviation are whole numbers
Samples ==
    {xs \in UNION {[1..n -> 0..MaxVal] : n \in 1..MaxSampleLen} :
        /\ Sum(xs) % Len(xs) = 0
        /\ Sum([i \in 1..Len(xs) |-> (xs[i] - Mean(xs)) * (xs[i] - Mean(xs))])
               % Len(xs) = 0
        /\ \E r \in 0..MaxVal : r * r = Variance(xs)}

\* gaussian_kde(sample) may fail on a sample without spread
Degenerate(xs) == Len(xs) < 2 \/ Std(xs) = 0

\* Pdf(kde, domain, name).plot(**options): one line artist on the axes
pdf_plot(st, domain, name, options) ==
    Step(st, st.heap, draw(st.axes, "line", label_of(options, name)),
         <<Call("Pdf", "plot_kde", EmptyDict, domain, <<>>, <<name>>),
           Call("Pdf.plot", "plot_kde", options, <<>>, <<>>, <<>>)>>)

plot_kde_styled_marker(st, sample, name, options, fits) ==
    LET k == kwargs(st.heap, options)
        fit == <<Call("gaussian_kde", "plot_kde", EmptyDict, sample,
                      <<>>, <<>>)>>
        m == Mean(sample)
        s == Std(sample)
        s0 == Step(st, k.heap, draw(st.axes, "vline", ""),
                   Append(fit, Call("axvline", "plot_kde",
                       [key \in DOMAIN options \cup {"ls", "color"} |->
                           IF key \in DOMAIN options THEN options[key]
                           ELSE IF key = "ls" THEN ":" ELSE "0.3"],
                       <<m>>, <<>>, <<>>)))
    IN  IF ~fits
        THEN Step(st, k.heap, st.axes, fit)
        ELSE pdf_plot(s0, <<m - 4 * s, m + 4 * s>>, name, s0.heap[k.id])

\* plot_kde(sample, name, **options); fits: gaussian_kde did not raise
plot_kde(st, sample, name, options, fits) ==
    LET k == kwargs(st.heap, options)
        fit == <<Call("gaussian_kde", "plot_kde", EmptyDict, sample,
                      <<>>, <<>>)>>
        m == Mean(sample)
        s == Std(sample)
        s0 == Step(st, k.heap, draw(st.axes, "vline", ""),
                   Append(fit, Call("axvline", "plot_kde",
                                    [ls |-> ":", color |-> "0.3"],
                                    <<m>>, <<>>, <<>>)))
    IN  IF ~fits
        THEN Step(st, k.heap, st.axes, fit)
        ELSE pdf_plot(s0, <<m - 4 * s, m + 4 * s>>, name, s0.heap[k.id])

(* --------------------------- plotting actions -------------------------- *)

\* a helper starts with no dicts of its own and an empty record of calls;
\* when it returns (None) its dicts are garbage and its drawing stays
Enter == [heap |-> <<>>, axes |-> axes, log |-> <<>>]

LegendOptions == Dicts({"loc", "title"}, {"upper left"})

Legend ==
    \E options \in LegendOptions :
        LET st == legend(Enter, options)
        IN  /\ axes' = st.axes
            /\ log' = st.log
            /\ last' = [NoCall EXCEPT !.op = "legend", !.options = options]
            /\ heap' = <<>>
            /\ ret' = 0
            /\ UNCHANGED counts

DecorateOptions ==
    {o \in Dicts({"loc", "legend", "xlabel"},
                 {"upper left", "True", "False", "x"}) :
        /\ "loc" \in DOMAIN o => o["loc"] = "upper left"
        /\ "legend" \in DOMAIN o => o["legend"] \in {"True", "False"}
        /\ "xlabel" \in DOMAIN o => o["xlabel"] = "x"}

Decorate ==
    \E options \in DecorateOptions :
        LET st == decorate(Enter, options)
        IN  /\ axes' = st.axes
            /\ log' = st.log
            /\ last' = [NoCall EXCEPT !.op = "decorate", !.options = options]
            /\ heap' = <<>>
            /\ ret' = 0
            /\ UNCHANGED counts

Widths == {1, 2}

BarOptions == Dicts({"alpha", "color"}, {"0.3"})

TwoBarPlots ==
    \E dist1 \in Dists, dist2 \in Dists, width \in Widths,
       xlabel \in {"", "x"}, options \in BarOptions :
        LET st == two_bar_plots(Enter, dist1, dist2, width, xlabel, options)
        IN  /\ Len(axes.artists) + 2 <= MaxArtists
            /\ axes' = st.axes
            /\ log' = st.log
            /\ last' = [NoCall EXCEPT !.op = "two_bar_plots",
                                      !.options = options,
                                      !.nums = <<dist1.id, dist2.id, width>>,
                                      !.strs = <<xlabel>>]
            /\ heap' = <<>>
            /\ ret' = 0
            /\ UNCHANGED counts

KdeOptions == Dicts({"color", "label"}, {"red"})

PlotKde ==
    \E sample \in Samples, name \in {"", "a"}, options \in KdeOptions,
       fits \in BOOLEAN :
        LET st == plot_kde(Enter, sample, name, options, fits)
        IN  /\ Len(axes.artists) + 2 <= MaxArtists
            /\ ~fits => Degenerate(sample)
            /\ axes' = st.axes
            /\ log' = st.log
            /\ last' = [NoCall EXCEPT !.op = "plot_kde", !.options = options,
                                      !.nums = sample, !.strs = <<name>>,
                                      !.raised = ~fits]
            /\ heap' = <<>>
            /\ ret' = 0
            /\ UNCHANGED counts

(* ------------------------------- frame --------------------------------- *)

Init ==
    /\ heap = <<>>
    /\ ret = 0
    /\ axes = NoAxes
    /\ log = <<>>
    /\ last = NoCall
    /\ counts = <<>>

\* the plotting helpers, sharing the current axes
Next == Legend \/ Decorate \/ TwoBarPlots \/ PlotKde

Spec == Init /\ [][Next]_vars

SpecUnderride == Init /\ [][Underride]_vars

SpecValueCounts == Init /\ [][ValueCounts]_vars

SpecSummary == Init /\ [][DisplaySummary]_vars

(* ----------------------------- properties ------------------------------ *)

\* the positions of the calls to fn in the record of the last helper
At(fn) == {i \in 1..Len(log) : log[i].fn = fn}

\* the calls that draw on, or lay out, the current axes
Plotting == {"bar", "axvline", "Pdf.plot", "ax.legend", "ax.set",
             "tight_layout"}

\* the labeled artists now on the axes
Labeled == {i \in 1..Len(axes.artists) : axes.artists[i].label # ""}

\* C1: after underride(d, **defaults) every default key is in the result,
\* every key d had keeps the value d had, and a default's value is stored
\* only under a key d lacked.
C1_UnderrideKeepsCallerValues ==
    last.op = "underride" =>
        LET res == heap[ret]
        IN  /\ DOMAIN last.options \subseteq DOMAIN res
            /\ \A k \in DOMAIN last.d : k \in DOMAIN res /\ res[k] = last.d[k]
            /\ \A k \in DOMAIN last.options \ DOMAIN last.d :
                   res[k] = last.options[k]

C1_Witness ==
    /\ last.op = "underride"
    /\ \E k \in DOMAIN last.d \cap DOMAIN last.options :
           last.d[k] # last.options[k] /\ heap[ret][k] = last.d[k]
    /\ \E k \in DOMAIN last.options \ DOMAIN last.d :
           heap[ret][k] = last.options[k]

\* C2: underride returns the caller's own dict object, changed in place:
\* no other dict exists afterwards, its keys are the old keys together with
\* the default keys, and when every default key was already present
\* (no defaults at all included) its contents are what they were.
C2_UnderrideInPlace ==
    last.op = "underride" =>
        /\ ret = 1
        /\ Len(heap) = 1
        /\ DOMAIN heap[1] = DOMAIN last.d \cup DOMAIN last.options
        /\ (DOMAIN last.options \subseteq DOMAIN last.d => heap[1] = last.d)

C2_Witness ==
    /\ last.op = "underride"
    /\ ret = 1
    /\ heap[1] # last.d
    /\ DOMAIN last.d # {}
    /\ DOMAIN heap[1] = DOMAIN last.d \cup DOMAIN last.options

\* C6: value_counts returns one row per distinct value with its frequency,
\* rows ascending by value (a NaN row last); the counting primitive gets
\* dropna=False unless the caller gave dropna, whose value it then gets, so
\* NaN entries are counted unless the caller asked to drop them.
C6_ValueCountsSorted ==
    last.op = "value_counts" =>
        LET series == last.nums
            dropna == IF "dropna" \in DOMAIN last.options
                      THEN last.options["dropna"] ELSE "False"
            present == {series[i] : i \in 1..Len(series)}
        IN  /\ Len(log) = 3
            /\ log[2].fn = "series.value_counts"
            /\ log[2].kw = [dropna |-> dropna]
            /\ log[3].fn = "sort_index"
            /\ \A i, j \in 1..Len(counts) :
                   i < j => /\ counts[i][1] # NaN
                            /\ counts[j][1] = NaN \/ counts[i][1] < counts[j][1]
            /\ \A i \in 1..Len(counts) :
                   counts[i][2] = Cardinality({n \in 1..Len(series) :
                                                  series[n] = counts[i][1]})
            /\ {counts[i][1] : i \in 1..Len(counts)} =
                   IF dropna = "True" THEN present \ {NaN} ELSE present

C6_Witness ==
    /\ last.op = "value_counts"
    /\ last.nums = <<NaN, 2, 1>>
    /\ last.options = EmptyDict
    /\ log[2].kw = [dropna |-> "False"]
    /\ counts = <<<<1, 1>>, <<2, 1>>, <<NaN, 1>>>>

\* C4: display_summary displays the coefficient table first; with rsquared
\* it then displays one one-row R-squared table, with prsquared alone one
\* one-row Pseudo R-squared table, and with neither nothing more.
C4_SummaryTables ==
    last.op = "display_summary" =>
        /\ Len(log) >= 1
        /\ \A i \in 1..Len(log) : log[i].fn = "display"
        /\ log[1].kw = [table |-> last.strs[2]]
        /\ "rsquared" \in DOMAIN last.d =>
               /\ Len(log) = 2
               /\ log[2].kw = [table |-> "SimpleTable"]
               /\ log[2].labels = <<"R-squared:">>
               /\ log[2].num = <<Format4(last.d["rsquared"])>>
        /\ ("rsquared" \notin DOMAIN last.d /\ "prsquared" \in DOMAIN last.d) =>
               /\ Len(log) = 2
               /\ log[2].kw = [table |-> "SimpleTable"]
               /\ log[2].labels = <<"Pseudo R-squared:">>
               /\ log[2].num = <<Format4(last.d["prsquared"])>>
        /\ DOMAIN last.d = {} => Len(log) = 1

C4_Witness ==
    /\ last.op = "display_summary"
    /\ DOMAIN last.d = {"prsquared"}
    /\ Len(log) = 2
    /\ log[1].kw = [table |-> "coef_logit"]
    /\ log[2].labels = <<"Pseudo R-squared:">>

\* C10: with both rsquared and prsquared exposed, display_summary displays
\* two tables, the second the R-squared row, and no Pseudo R-squared row;
\* it never displays more than two tables, nor both rows.
C10_RsquaredPrecedence ==
    last.op = "display_summary" =>
        /\ Len(log) <= 2
        /\ ~(\E i, j \in 1..Len(log) :
                 /\ log[i].labels = <<"R-squared:">>
                 /\ log[j].labels = <<"Pseudo R-squared:">>)
        /\ DOMAIN last.d = {"rsquared", "prsquared"} =>
               /\ Len(log) = 2
               /\ log[2].labels = <<"R-squared:">>
               /\ log[2].num = <<Format4(last.d["rsquared"])>>
               /\ \A i \in 1..Len(log) :
                      log[i].labels # <<"Pseudo R-squared:">>

C10_Witness ==
    /\ last.op = "display_summary"
    /\ DOMAIN last.d = {"rsquared", "prsquared"}
    /\ last.d["rsquared"] # last.d["prsquared"]
    /\ Len(log) = 2
    /\ log[2].labels = <<"R-squared:">>

\* C3: whenever legend() runs (called directly, or by decorate), ax.legend
\* is called if and only if some artist on the axes carries a label; it is
\* then called once, with exactly the labeled artists and their labels, and
\* with loc='best' unless the caller of legend() gave loc.  With no labeled
\* artist the axes have no legend.
C3_LegendIffLabeled ==
    At("get_legend_handles_labels") # {} =>
        /\ At("ax.legend") # {} <=> Labeled # {}
        /\ Labeled = {} => axes.legend = <<>>
        /\ \A i \in At("ax.legend") :
               /\ At("ax.legend") = {i}
               /\ \A g \in At("get_legend_handles_labels") : g < i
               /\ {log[i].handles[n] : n \in 1..Len(log[i].handles)} = Labeled
               /\ \A n \in 1..Len(log[i].handles) :
                      log[i].labels[n] = axes.artists[log[i].handles[n]].label
               /\ "loc" \in DOMAIN log[i].kw
               /\ axes.legend = <<[handles |-> log[i].handles,
                                   labels |-> log[i].labels,
                                   kw |-> log[i].kw]>>
               /\ last.op = "legend" =>
                      log[i].kw =
                          [k \in DOMAIN last.options \cup {"loc"} |->
                              IF k \in DOMAIN last.options
                              THEN last.options[k] ELSE "best"]

C3_Witness ==
    /\ last.op = "legend"
    /\ last.options = [title |-> "upper left"]
    /\ Labeled # {}
    /\ \E i \in At("ax.legend") :
           log[i].kw = [title |-> "upper left", loc |-> "best"]
    /\ axes.legend # <<>>

C9_TwoBarPlots ==
    last.op = "two_bar_plots" =>
        LET opts == [k \in DOMAIN last.options \cup {"alpha"} |->
                        IF k \in DOMAIN last.options
                        THEN last.options[k] ELSE "0.6"]
            kw == [k \in DOMAIN opts \cup {"align"} |->
                      IF k = "align" THEN "edge" ELSE opts[k]]
            n == Len(axes.artists)
        IN  /\ At("bar") = {2, 3}
            /\ log[2].kw = kw
            /\ log[3].kw = kw
            /\ log[2].num = <<last.nums[1], 0 - last.nums[3]>>
            /\ log[3].num = <<last.nums[2], last.nums[3]>>
            /\ axes.artists[n - 1].kind = "bar"
            /\ axes.artists[n].kind = "bar"
            /\ log[4] = Call("legend", "decorate", [loc |-> "best"],
                             <<>>, <<>>, <<>>)
            /\ \A i \in 1..Len(log) :
                   log[i].by \in {"decorate", "legend"} => i > 3
            /\ At("get_legend_handles_labels") # {}
            /\ \A i \in At("ax.legend") :
                   \A a \in {n - 1, n} :
                       axes.artists[a].label # "" =>
                           \E h \in 1..Len(log[i].handles) :
                               log[i].handles[h] = a
            /\ At("ax.set") = {Len(log) - 1}
            /\ log[Len(log) - 1].kw = [xlabel |-> last.strs[1]]
            /\ log[Len(log)].fn = "tight_layout"

C9_Witness ==
    /\ last.op = "two_bar_plots"
    /\ last.options = [alpha |-> "0.3"]
    /\ last.nums = <<2, 1, 2>>
    /\ log[2].kw = [alpha |-> "0.3", align |-> "edge"]
    /\ log[2].num = <<2, 0 - 2>>
    /\ log[3].num = <<1, 2>>
    /\ \E i \in At("ax.legend") : log[i].handles = <<1>>

\* C8: a plot_kde that returns draws the marker at the sample mean m with
\* ls=':' and color='0.3' and nothing else, whatever the caller's options,
\* before the curve; the curve is bound to (m - 4s, m + 4s) and to the name,
\* and the caller's options go to the curve's plot call alone.  A plot_kde
\* that raises in the estimator draws nothing.
C8_PlotKde ==
    last.op = "plot_kde" =>
        LET n == Len(last.nums)
            total == Sum(last.nums)
        IN  IF last.raised
            THEN /\ \A i \in 1..Len(log) : log[i].fn \notin Plotting
                 /\ At("Pdf") = {}
            ELSE /\ Len(log) = 4
                 /\ log[1].fn = "gaussian_kde"
                 /\ log[2].fn = "axvline"
                 /\ log[2].kw = [ls |-> ":", color |-> "0.3"]
                 /\ Len(log[2].num) = 1
                 /\ log[2].num[1] * n = total
                 /\ log[3].fn = "Pdf"
                 /\ log[3].labels = last.strs
                 /\ Len(log[3].num) = 2
                 /\ log[3].num[1] + log[3].num[2] = 2 * log[2].num[1]
                 /\ LET s == (log[3].num[2] - log[3].num[1]) \div 8
                    IN  /\ s >= 0
                        /\ 8 * s = log[3].num[2] - log[3].num[1]
                        /\ n * s * s =
                               Sum([i \in 1..n |->
                                       (last.nums[i] - log[2].num[1])
                                       * (last.nums[i] - log[2].num[1])])
                 /\ log[4].fn = "Pdf.plot"
                 /\ log[4].kw = last.options
                 /\ axes.artists[Len(axes.artists) - 1] =
                        [kind |-> "vline", label |-> ""]

C8_Witness ==
    /\ last.op = "plot_kde"
    /\ ~last.raised
    /\ last.nums = <<0, 2>>
    /\ last.options = [color |-> "red"]
    /\ log[2].kw = [ls |-> ":", color |-> "0.3"]
    /\ log[2].num = <<1>>
    /\ log[3].num = <<0 - 3, 5>>
    /\ log[4].kw = [color |-> "red"]

\* C7 as stated: each of two_bar_plots, decorate, legend and plot_kde calls
\* underride on its own keyword options before its first plotting call, and
\* plot_kde plots its curve with merged options.
C7_EveryHelperMergesFirst ==
    (/\ last.op \in {"two_bar_plots", "decorate", "legend", "plot_kde"}
     /\ \E j \in 1..Len(log) : log[j].fn \in Plotting) =>
        \E i \in At("underride") :
            /\ log[i].by = last.op
            /\ \A j \in 1..Len(log) : log[j].fn \in Plotting => i < j

\* C7 amended: two_bar_plots and legend call underride on their own keyword
\* options before any other call; decorate never calls underride itself
\* (only the legend() it calls does, and only when the legend is wanted);
\* plot_kde never calls underride and gives the curve's plot call the
\* caller's options as they came.
C7_WhoMergesFirst ==
    /\ last.op \in {"two_bar_plots", "legend"} =>
           /\ log[1].fn = "underride"
           /\ log[1].by = last.op
           /\ log[1].num = <<1>>
    /\ \A i \in At("underride") :
           /\ log[i].by \in {"two_bar_plots", "legend"}
           /\ log[i].by = "legend" =>
                  \A j \in 1..Len(log) :
                      log[j].by = "legend" /\ j # i => i < j
    /\ last.op = "decorate" =>
           (At("underride") # {} <=> At("legend") # {})
    /\ last.op = "plot_kde" =>
           /\ At("underride") = {}
           /\ \A i \in At("Pdf.plot") : log[i].kw = last.options

C7_Witness ==
    /\ last.op = "plot_kde"
    /\ ~last.raised
    /\ last.options = [color |-> "red"]
    /\ At("underride") = {}
    /\ At("axvline") = {2}
    /\ \E i \in At("Pdf.plot") : log[i].kw = [color |-> "red"]

====
